---- MODULE Spec2Model ----
(***************************************************************************)
(* Model of NectaResultsAnalyzer (analysis.py) and of the scripts that     *)
(* drive it (the __main__ block of analysis.py, test.py).                  *)
(*                                                                         *)
(* A Python str is a sequence of one-character strings, so that regular    *)
(* expression splitting, stripping and string comparison are computed      *)
(* character by character as Python computes them.                         *)
(***************************************************************************)
EXTENDS Integers, Sequences, FiniteSets

(***************************************************************************)
(* Bounds.                                                                 *)
(***************************************************************************)
\* longest DETAILED SUBJECTS text handed to parse_subjects in SpecParse
MaxLen == 6
\* largest number of data rows of the fetched table
MaxRecords == 2

(***************************************************************************)
(* Python values.                                                          *)
(***************************************************************************)
None == <<>>
Some(v) == <<v>>
Val(o) == o[1]

\* the characters \s matches and str.strip() removes, among those modelled
Whitespace == {" ", "\t"}

\* the characters of the texts given to parse_subjects in SpecParse
Alphabet == {"M", "A", " ", "\t", "-", "'"}

\* ord(c) of the characters that occur in compared strings
Ord(c) ==
  CASE c = "\t" -> 9
    [] c = " " -> 32
    [] c = "'" -> 39
    [] c = "*" -> 42
    [] c = "-" -> 45
    [] c = "0" -> 48
    [] c = "A" -> 65
    [] c = "B" -> 66
    [] c = "E" -> 69
    [] c = "H" -> 72
    [] c = "I" -> 73
    [] c = "M" -> 77
    [] c = "S" -> 83
    [] c = "V" -> 86
    [] c = "X" -> 88
    [] c = "Z" -> 90

\* a < b for two Python str values (lexicographic by code point)
RECURSIVE StrLess(_, _)
StrLess(a, b) ==
  IF a = <<>> THEN b # <<>>
  ELSE IF b = <<>> THEN FALSE
  ELSE IF Ord(a[1]) # Ord(b[1]) THEN Ord(a[1]) < Ord(b[1])
  ELSE StrLess(Tail(a), Tail(b))

\* sorted(S): the elements of the set S of str in ascending order
RECURSIVE sorted(_)
sorted(S) ==
  IF S = {} THEN <<>>
  ELSE LET m == CHOOSE x \in S : \A y \in S \ {x} : StrLess(x, y)
       IN <<m>> \o sorted(S \ {m})

\* s.strip(chars): s without its leading and trailing characters in chars
RECURSIVE lstrip(_, _)
lstrip(s, chars) ==
  IF s # <<>> /\ s[1] \in chars THEN lstrip(Tail(s), chars) ELSE s

RECURSIVE rstrip(_, _)
rstrip(s, chars) ==
  IF s # <<>> /\ s[Len(s)] \in chars
  THEN rstrip(SubSeq(s, 1, Len(s) - 1), chars)
  ELSE s

strip(s, chars) == rstrip(lstrip(s, chars), chars)

(***************************************************************************)
(* re.split(r'\s{2,}|\s*-\s*', s)                                          *)
(***************************************************************************)
\* number of consecutive whitespace characters of s from position i on
RECURSIVE WsRun(_, _)
WsRun(s, i) ==
  IF i <= Len(s) /\ s[i] \in Whitespace THEN 1 + WsRun(s, i + 1) ELSE 0

\* length of the match of the pattern anchored at position i, 0 if none.
\* The alternatives are tried in order: \s{2,} first (greedy), and only when
\* it fails \s*-\s* (greedy; it matches iff the whitespace run at i is
\* directly followed by a hyphen).
MatchLen(s, i) ==
  LET k == WsRun(s, i)
  IN IF k >= 2 THEN k
     ELSE IF i + k <= Len(s) /\ s[i + k] = "-"
          THEN k + 1 + WsRun(s, i + k + 1)
          ELSE 0

\* the pieces of s between the leftmost non-overlapping matches, scanning
\* from position i with the current piece starting at position start
RECURSIVE SplitFrom(_, _, _)
SplitFrom(s, i, start) ==
  IF i > Len(s) THEN << SubSeq(s, start, Len(s)) >>
  ELSE LET m == MatchLen(s, i)
       IN IF m > 0
          THEN << SubSeq(s, start, i - 1) >> \o SplitFrom(s, i + m, i + m)
          ELSE SplitFrom(s, i + 1, start)

re_split(s) == SplitFrom(s, 1, 1)

(***************************************************************************)
(* parse_subjects                                                          *)
(***************************************************************************)
\* subjects[i+1].strip("'").strip()
grade_of(token) == strip(strip(token, {"'"}), Whitespace)

\* variant of the loop in which a pair with an empty grade consumes only its
\* subject token, so that the following tokens are paired one token earlier
RECURSIVE parse_pairs_shift(_, _)
parse_pairs_shift(subjects, i) ==
  IF i > Len(subjects) - 1 THEN <<>>
  ELSE LET subject == strip(subjects[i], Whitespace)
           grade == grade_of(subjects[i + 1])
       IN IF grade # <<>>
          THEN << [subject |-> subject, grade |-> grade] >>
                 \o parse_pairs_shift(subjects, i + 2)
          ELSE parse_pairs_shift(subjects, i + 1)

\* for i in range(0, len(subjects)-1, 2): ... (i is 1-based here)
RECURSIVE parse_pairs(_, _)
parse_pairs(subjects, i) ==
  IF i > Len(subjects) - 1 THEN <<>>
  ELSE LET subject == strip(subjects[i], Whitespace)
           grade == grade_of(subjects[i + 1])
           rest == parse_pairs(subjects, i + 2)
       IN IF grade # <<>>
          THEN << [subject |-> subject, grade |-> grade] >> \o rest
          ELSE rest

parse_subjects(subject_string) ==
  parse_pairs(re_split(strip(subject_string, Whitespace)), 1)

(***************************************************************************)
(* Grade vocabulary (__init__).                                            *)
(***************************************************************************)
\* variant of the vocabulary that also lists the star code *S as a grade
valid_grades_with_star ==
  << <<"A">>, <<"B">>, <<"C">>, <<"D">>, <<"F">>, <<"X">>, <<"*", "R">>,
     <<"*", "S">> >>

valid_grades ==
  << <<"A">>, <<"B">>, <<"C">>, <<"D">>, <<"F">>, <<"X">>, <<"*", "R">> >>

\* the keys of self.star_codes
star_codes ==
  { <<"*", "S">>, <<"*", "E">>, <<"*", "I">>, <<"*", "W">>, <<"*", "T">>,
    <<"A", "B", "S">>, <<"F", "L", "D">>, <<"X">> }

\* self.unique_grades = self.valid_grades
unique_grades == valid_grades

\* set(self.valid_grades)
ValidSet == { valid_grades[i] : i \in 1..Len(valid_grades) }

\* grade in self.valid_grades
InValid(grade) == \E i \in 1..Len(valid_grades) : valid_grades[i] = grade

(***************************************************************************)
(* The tables fetch_data can return: rows of SEX, DIV, DETAILED SUBJECTS.  *)
(***************************************************************************)
\* values of the SEX column: F, M and a value that is neither
SexValues == {"F", "M", "U"}

\* values of the DIV column
DivValues == { <<"I">>, <<"0">>, <<"A", "B", "S">> }

\* values of the DETAILED SUBJECTS column:
\* "M  A  E - X" and "M - *S  H  Z"
DetailedValues ==
  { <<"M", " ", " ", "A", " ", " ", "E", " ", "-", " ", "X">>,
    <<"M", " ", "-", " ", "*", "S", " ", " ", "H", " ", " ", "Z">> }

Rows ==
  [SEX : SexValues, DIV : DivValues, DETAILED_SUBJECTS : DetailedValues]

\* the non-empty tables of at most MaxRecords rows
Pages == UNION { [1..n -> Rows] : n \in 1..MaxRecords }

\* the texts given to parse_subjects in SpecParse
Strings == UNION { [1..n -> Alphabet] : n \in 0..MaxLen }

VARIABLES
  pc,                   \* position of the script in run() and after it
  fetch_result,         \* how fetch_data returned
  df,                   \* self.df
  invalid_grades,       \* the set validate_grades returned
  unique_subjects,      \* self.unique_subjects
  grade_counts_by_sex,  \* self.grade_counts_by_sex, keyed (subject, sex, grade)
  total_grade_counts,   \* self.total_grade_counts, keyed (subject, grade)
  summary_df,           \* self.summary_df
  div_summary_df,       \* self.div_summary_df
  files,                \* names of the output files written so far
  subject_string,       \* argument of a direct parse_subjects call
  subject_grade_pairs   \* its return value

vars ==
  << pc, fetch_result, df, invalid_grades, unique_subjects,
     grade_counts_by_sex, total_grade_counts, summary_df, div_summary_df,
     files, subject_string, subject_grade_pairs >>

analyzer_vars ==
  << pc, fetch_result, df, invalid_grades, unique_subjects,
     grade_counts_by_sex, total_grade_counts, summary_df, div_summary_df,
     files >>

(***************************************************************************)
(* validate_grades                                                         *)
(***************************************************************************)
\* self.df['Subject_Grade_Pairs'] = self.df['DETAILED SUBJECTS'].apply(...)
with_pairs(rows) ==
  [i \in 1..Len(rows) |->
     [SEX |-> rows[i].SEX, DIV |-> rows[i].DIV,
      DETAILED_SUBJECTS |-> rows[i].DETAILED_SUBJECTS,
      Subject_Grade_Pairs |-> parse_subjects(rows[i].DETAILED_SUBJECTS)]]

\* the set built by all_grades.add(pair['grade']) over pairs[j..]
RECURSIVE add_grades(_, _, _)
add_grades(all_grades, pairs, j) ==
  IF j > Len(pairs) THEN all_grades
  ELSE add_grades(all_grades \cup {pairs[j].grade}, pairs, j + 1)

\* ... over rows[i..]
RECURSIVE all_grades_from(_, _, _)
all_grades_from(all_grades, rows, i) ==
  IF i > Len(rows) THEN all_grades
  ELSE all_grades_from(add_grades(all_grades, rows[i].Subject_Grade_Pairs, 1),
                       rows, i + 1)

\* variant that also accepts the star codes as known grades
invalid_of_star(all_grades) == all_grades \ (ValidSet \cup star_codes)

\* invalid_grades = all_grades - set(self.valid_grades)
invalid_of(all_grades) == all_grades \ ValidSet

(***************************************************************************)
(* analyze_results: subject-grade analysis                                 *)
(***************************************************************************)
\* defaultdict(int): d[k] += 1 and d[k]. A key whose count is the default 0
\* is represented by its absence, so an entry inserted by a mere read is not
\* told apart from a missing one.
Inc(d, k) ==
  IF k \in DOMAIN d THEN [d EXCEPT ![k] = @ + 1]
  ELSE [x \in DOMAIN d \cup {k} |-> IF x = k THEN 1 ELSE d[x]]

Get(d, k) == IF k \in DOMAIN d THEN d[k] ELSE 0

EmptyDict == [x \in {} |-> 0]

\* all_subjects after the first loop over the rows
all_subjects_of(rows) ==
  UNION { { rows[i].Subject_Grade_Pairs[j].subject :
              j \in 1..Len(rows[i].Subject_Grade_Pairs) } :
          i \in 1..Len(rows) }

\* variant of the counting step that adds to the per-subject total only for
\* the sexes that have a column of their own
count_pair_FM(counts, sex, pair) ==
  IF InValid(pair.grade)
  THEN [by_sex |-> Inc(counts.by_sex, <<pair.subject, sex, pair.grade>>),
        total |-> IF sex \in {"F", "M"}
                  THEN Inc(counts.total, <<pair.subject, pair.grade>>)
                  ELSE counts.total]
  ELSE counts

\* if grade in self.valid_grades: both counters += 1
count_pair(counts, sex, pair) ==
  IF InValid(pair.grade)
  THEN [by_sex |-> Inc(counts.by_sex, <<pair.subject, sex, pair.grade>>),
        total |-> Inc(counts.total, <<pair.subject, pair.grade>>)]
  ELSE counts

\* for pair in row['Subject_Grade_Pairs'], from pair j on
RECURSIVE count_row(_, _, _)
count_row(counts, row, j) ==
  IF j > Len(row.Subject_Grade_Pairs) THEN counts
  ELSE count_row(count_pair(counts, row.SEX, row.Subject_Grade_Pairs[j]),
                 row, j + 1)

\* for _, row in self.df.iterrows(), from row i on
RECURSIVE count_rows(_, _, _)
count_rows(counts, rows, i) ==
  IF i > Len(rows) THEN counts
  ELSE count_rows(count_row(counts, rows[i], 1), rows, i + 1)

grade_counts(rows) ==
  count_rows([by_sex |-> EmptyDict, total |-> EmptyDict], rows, 1)

\* summary_data: one row per subject of unique_subjects, in that order, with
\* the columns F_g, M_g and Total_g of every grade g of unique_grades
summary_of(rows) ==
  LET subjects == sorted(all_subjects_of(rows))
      counts == grade_counts(rows)
      G == { unique_grades[k] : k \in 1..Len(unique_grades) }
  IN [n \in 1..Len(subjects) |->
        [Subject |-> subjects[n],
         F |-> [g \in G |-> Get(counts.by_sex, <<subjects[n], "F", g>>)],
         M |-> [g \in G |-> Get(counts.by_sex, <<subjects[n], "M", g>>)],
         Total |-> [g \in G |-> Get(counts.total, <<subjects[n], g>>)]]]

(***************************************************************************)
(* analyze_results: DIV summary by sex                                     *)
(***************************************************************************)
\* div_counts.index and div_counts.columns of groupby(['DIV', 'SEX'])
div_index(rows) == { rows[i].DIV : i \in 1..Len(rows) }
sex_columns(rows) == { rows[i].SEX : i \in 1..Len(rows) }

\* .size().unstack(fill_value=0) at (div, sex)
group_size(rows, div, sex) ==
  Cardinality({ i \in 1..Len(rows) : rows[i].DIV = div /\ rows[i].SEX = sex })

\* div_counts.at[div, sex] if sex in div_counts.columns else 0
div_count(rows, div, sex) ==
  IF sex \in sex_columns(rows) THEN group_size(rows, div, sex) ELSE 0

\* div_counts['Total'] = div_counts.get('F', 0) + div_counts.get('M', 0)
div_total(rows, div) == div_count(rows, div, "F") + div_count(rows, div, "M")

\* the list ['I', 'II', 'III', 'IV', '0'] of the sort key
key_list ==
  << <<"I">>, <<"I", "I">>, <<"I", "I", "I">>, <<"I", "V">>, <<"0">> >>

\* key(x) < key(y) for key = lambda x: (x not in [...], x)
KeyLess(x, y) ==
  LET nx == ~ \E k \in 1..Len(key_list) : key_list[k] = x
      ny == ~ \E k \in 1..Len(key_list) : key_list[k] = y
  IN IF nx # ny THEN ~nx ELSE StrLess(x, y)

RECURSIVE sorted_by_key(_)
sorted_by_key(S) ==
  IF S = {} THEN <<>>
  ELSE LET m == CHOOSE x \in S : \A y \in S \ {x} : KeyLess(x, y)
       IN <<m>> \o sorted_by_key(S \ {m})

\* the divisions in the order in which the rows first show them
RECURSIVE first_seen(_, _, _)
first_seen(rows, i, seen) ==
  IF i > Len(rows) THEN <<>>
  ELSE IF rows[i].DIV \in seen THEN first_seen(rows, i + 1, seen)
  ELSE <<rows[i].DIV>> \o first_seen(rows, i + 1, seen \cup {rows[i].DIV})

\* variant of the row order: no sorting, divisions as the rows show them
div_order_unsorted(rows) == first_seen(rows, 1, {})

\* sorted(div_counts.index, key=...)
div_order(rows) == sorted_by_key(div_index(rows))

div_summary_of(rows) ==
  LET order == div_order(rows)
  IN [n \in 1..Len(order) |->
        [DIV |-> order[n],
         F |-> div_count(rows, order[n], "F"),
         M |-> div_count(rows, order[n], "M"),
         Total |-> div_total(rows, order[n])]]

(***************************************************************************)
(* Initial states.                                                         *)
(***************************************************************************)
\* the analyzer after __init__, the script about to call run()
InitAnalyzer ==
  /\ pc = "run"
  /\ fetch_result = "not_called"
  /\ df = None
  /\ invalid_grades = None
  /\ unique_subjects = None
  /\ grade_counts_by_sex = None
  /\ total_grade_counts = None
  /\ summary_df = None
  /\ div_summary_df = None
  /\ files = {}

Init ==
  /\ InitAnalyzer
  /\ subject_string = <<>>
  /\ subject_grade_pairs = None

\* a direct call of parse_subjects on any text of the alphabet
InitParse ==
  /\ InitAnalyzer
  /\ subject_string \in Strings
  /\ subject_grade_pairs = None

(***************************************************************************)
(* run() and the calls the scripts make after it.                          *)
(***************************************************************************)
\* variant of the except branch without its return: the body of the error
\* response is parsed as if the request had succeeded
fetch_data_http_error_parsed ==
  /\ pc = "run"
  /\ \E page \in Pages : df' = Some(page)
  /\ fetch_result' = "http_error"
  /\ pc' = "validate"
  /\ UNCHANGED << invalid_grades, unique_subjects, grade_counts_by_sex,
                  total_grade_counts, summary_df, div_summary_df, files,
                  subject_string, subject_grade_pairs >>

\* requests.RequestException: fetch_data returns False and run() returns
fetch_data_http_error ==
  /\ pc = "run"
  /\ fetch_result' = "http_error"
  /\ pc' = "after_run"
  /\ UNCHANGED << df, invalid_grades, unique_subjects, grade_counts_by_sex,
                  total_grade_counts, summary_df, div_summary_df, files,
                  subject_string, subject_grade_pairs >>

\* no table on the page: fetch_data returns False and run() returns
fetch_data_no_tables ==
  /\ pc = "run"
  /\ fetch_result' = "no_tables"
  /\ pc' = "after_run"
  /\ UNCHANGED << df, invalid_grades, unique_subjects, grade_counts_by_sex,
                  total_grade_counts, summary_df, div_summary_df, files,
                  subject_string, subject_grade_pairs >>

\* the last table of the page becomes self.df; fetch_data returns True
fetch_data_ok ==
  /\ pc = "run"
  /\ \E page \in Pages : df' = Some(page)
  /\ fetch_result' = "ok"
  /\ pc' = "validate"
  /\ UNCHANGED << invalid_grades, unique_subjects, grade_counts_by_sex,
                  total_grade_counts, summary_df, div_summary_df, files,
                  subject_string, subject_grade_pairs >>

validate_grades ==
  /\ pc = "validate"
  /\ LET rows == with_pairs(Val(df))
     IN /\ df' = Some(rows)
        /\ invalid_grades' = Some(invalid_of(all_grades_from({}, rows, 1)))
  /\ pc' = "save_json"
  /\ UNCHANGED << fetch_result, unique_subjects, grade_counts_by_sex,
                  total_grade_counts, summary_df, div_summary_df, files,
                  subject_string, subject_grade_pairs >>

\* the write either succeeds or raises; the exception is caught and printed
save_to_json ==
  /\ pc = "save_json"
  /\ \E ok \in BOOLEAN :
       files' = IF ok THEN files \cup {"necta_results.json"} ELSE files
  /\ pc' = "analyze"
  /\ UNCHANGED << fetch_result, df, invalid_grades, unique_subjects,
                  grade_counts_by_sex, total_grade_counts, summary_df,
                  div_summary_df, subject_string, subject_grade_pairs >>

analyze_results ==
  /\ pc = "analyze"
  /\ LET rows == Val(df)
         subjects == sorted(all_subjects_of(rows))
         counts == grade_counts(rows)
     IN /\ unique_subjects' = Some(subjects)
        /\ grade_counts_by_sex' = Some(counts.by_sex)
        /\ total_grade_counts' = Some(counts.total)
        /\ summary_df' = Some(summary_of(rows))
        /\ div_summary_df' = Some(div_summary_of(rows))
  /\ pc' = "print"
  /\ UNCHANGED << fetch_result, df, invalid_grades, files, subject_string,
                  subject_grade_pairs >>

\* prints only; run() returns after it
print_analysis ==
  /\ pc = "print"
  /\ pc' = "after_run"
  /\ UNCHANGED << fetch_result, df, invalid_grades, unique_subjects,
                  grade_counts_by_sex, total_grade_counts, summary_df,
                  div_summary_df, files, subject_string, subject_grade_pairs >>

\* called after run(); without a summary it prints and returns, otherwise
\* the write succeeds or fails (missing directory, I/O error: caught)
save_analysis_to_csv ==
  /\ pc = "after_run"
  /\ IF summary_df = None
     THEN files' = files
     ELSE \E ok \in BOOLEAN :
            files' = IF ok THEN files \cup {"necta_summary.csv"} ELSE files
  /\ pc' = "div_csv"
  /\ UNCHANGED << fetch_result, df, invalid_grades, unique_subjects,
                  grade_counts_by_sex, total_grade_counts, summary_df,
                  div_summary_df, subject_string, subject_grade_pairs >>

save_div_summary_to_csv ==
  /\ pc = "div_csv"
  /\ IF div_summary_df = None
     THEN files' = files
     ELSE \E ok \in BOOLEAN :
            files' = IF ok THEN files \cup {"necta_div_summary.csv"}
                     ELSE files
  /\ pc' = "done"
  /\ UNCHANGED << fetch_result, df, invalid_grades, unique_subjects,
                  grade_counts_by_sex, total_grade_counts, summary_df,
                  div_summary_df, subject_string, subject_grade_pairs >>

\* the command line without --directory: no call follows run()
main_without_directory ==
  /\ pc = "after_run"
  /\ pc' = "exit"
  /\ UNCHANGED << fetch_result, df, invalid_grades, unique_subjects,
                  grade_counts_by_sex, total_grade_counts, summary_df,
                  div_summary_df, files, subject_string, subject_grade_pairs >>

Next ==
  \/ fetch_data_http_error
  \/ fetch_data_no_tables
  \/ fetch_data_ok
  \/ validate_grades
  \/ save_to_json
  \/ analyze_results
  \/ print_analysis
  \/ save_analysis_to_csv
  \/ save_div_summary_to_csv
  \/ main_without_directory

Spec == Init /\ [][Next]_vars

(***************************************************************************)
(* A direct call of parse_subjects.                                        *)
(***************************************************************************)
call_parse_subjects ==
  /\ subject_grade_pairs = None
  /\ subject_grade_pairs' = Some(parse_subjects(subject_string))
  /\ UNCHANGED << analyzer_vars, subject_string >>

NextParse == call_parse_subjects

SpecParse == InitParse /\ [][NextParse]_vars

(***************************************************************************)
(* Properties.                                                             *)
(***************************************************************************)
\* sum of f[x] over the finite set S
RECURSIVE SumOver(_, _)
SumOver(f, S) ==
  IF S = {} THEN 0
  ELSE LET x == CHOOSE y \in S : TRUE IN f[x] + SumOver(f, S \ {x})

\* the (row, pair) positions at which the records give subject s a grade of G
Occurrences(rows, s, G) ==
  UNION { { <<i, j>> :
              j \in { k \in 1..Len(rows[i].Subject_Grade_Pairs) :
                        /\ rows[i].Subject_Grade_Pairs[k].subject = s
                        /\ rows[i].Subject_Grade_Pairs[k].grade \in G } } :
          i \in 1..Len(rows) }

\* every grade some record's parsed pairs show
ObservedGrades(rows) ==
  UNION { { rows[i].Subject_Grade_Pairs[j].grade :
              j \in 1..Len(rows[i].Subject_Grade_Pairs) } :
          i \in 1..Len(rows) }

\* the rows in the order given by the permutation p of their positions
Permuted(rows, p) == [i \in 1..Len(rows) |-> rows[p[i]]]

RowPermutations(n) ==
  { p \in [1..n -> 1..n] : \A i, j \in 1..n : i # j => p[i] # p[j] }

\* C1: after analyze_results every row of the subject-grade summary has
\* Total_g = F_g + M_g for every valid grade g, whatever the SEX values are.
C1_TotalIsFemalePlusMale ==
  summary_df # None =>
    \A n \in 1..Len(Val(summary_df)) : \A g \in ValidSet :
      Val(summary_df)[n].Total[g]
        = Val(summary_df)[n].F[g] + Val(summary_df)[n].M[g]

\* C2: after analyze_results the Total column of the division summary sums
\* to the number of input records, whatever their SEX and DIV values are.
C2_DivisionTotalsCountEveryRecord ==
  div_summary_df # None =>
    SumOver([n \in 1..Len(Val(div_summary_df)) |->
               Val(div_summary_df)[n].Total],
            1..Len(Val(div_summary_df)))
      = Len(Val(df))

\* the fixed order of the canonical divisions
CanonicalDivisions ==
  << <<"I">>, <<"I", "I">>, <<"I", "I", "I">>, <<"I", "V">>, <<"0">> >>

CanonicalRank(x) ==
  IF \E k \in 1..Len(CanonicalDivisions) : CanonicalDivisions[k] = x
  THEN CHOOSE k \in 1..Len(CanonicalDivisions) : CanonicalDivisions[k] = x
  ELSE 0

\* x is to come before y: canonical divisions first, in their fixed order,
\* then the other values alphabetically
ComesBefore(x, y) ==
  IF CanonicalRank(x) > 0 /\ CanonicalRank(y) > 0
  THEN CanonicalRank(x) < CanonicalRank(y)
  ELSE IF CanonicalRank(x) > 0 THEN TRUE
  ELSE IF CanonicalRank(y) > 0 THEN FALSE
  ELSE StrLess(x, y)

\* C3: the rows of the division summary show I, II, III, IV, 0 first, in
\* exactly that order, and after them the other divisions alphabetically.
C3_DivisionRowOrder ==
  div_summary_df # None =>
    \A m, n \in 1..Len(Val(div_summary_df)) :
      m < n => ComesBefore(Val(div_summary_df)[m].DIV,
                           Val(div_summary_df)[n].DIV)

\* the tokens parse_subjects pairs up
TokensOf(s) == re_split(strip(s, Whitespace))

\* the pair made of tokens 2k-1 and 2k
TokenPair(tokens, k) ==
  [subject |-> strip(tokens[2 * k - 1], Whitespace),
   grade |-> grade_of(tokens[2 * k])]

HasGrade(pair) == pair.grade # <<>>

\* C4: parse_subjects returns, in input order, exactly the token pairs
\* (token 2i, token 2i+1) whose trimmed grade is non-empty; a pair with an
\* empty grade is dropped without shifting the later pairs, and a dangling
\* last token is dropped.
C4_PairsTwoAtATime ==
  subject_grade_pairs # None =>
    LET tokens == TokensOf(subject_string)
    IN Val(subject_grade_pairs)
         = SelectSeq([k \in 1..(Len(tokens) \div 2) |-> TokenPair(tokens, k)],
                     HasGrade)

\* C4's case: four tokens, the first pair without a grade, the second kept
C4_Witness ==
  /\ subject_grade_pairs # None
  /\ Len(TokensOf(subject_string)) = 4
  /\ grade_of(TokensOf(subject_string)[2]) = <<>>
  /\ Len(Val(subject_grade_pairs)) = 1
  /\ Val(subject_grade_pairs)[1].subject = TokensOf(subject_string)[3]

\* a non-empty text without delimiter, quote or whitespace
IsPlain(t) == t # <<>> /\ \A i \in 1..Len(t) : t[i] \in {"M", "A"}

\* C5: for plain S and G, S whitespace* - whitespace* G parses to exactly
\* [(S, G)], as S and G separated by two whitespace characters do.
C5_HyphenIsOneDelimiter ==
  subject_grade_pairs # None =>
    \A p \in 1..Len(subject_string) :
      LET S == rstrip(SubSeq(subject_string, 1, p - 1), Whitespace)
          G == lstrip(SubSeq(subject_string, p + 1, Len(subject_string)),
                      Whitespace)
      IN (subject_string[p] = "-" /\ IsPlain(S) /\ IsPlain(G)) =>
           /\ Val(subject_grade_pairs) = << [subject |-> S, grade |-> G] >>
           /\ Val(subject_grade_pairs)
                = parse_subjects(S \o <<" ", " ">> \o G)

\* C6: every observed subject has exactly one row; its Total_g is the number
\* of (subject, g) occurrences in the records' pairs for every valid g (so
\* occurrences with other grades change nothing, and a subject seen only
\* with such grades has a row of zeros).
C6_TotalsCountOccurrences ==
  summary_df # None =>
    LET rows == Val(df)
        sm == Val(summary_df)
    IN /\ { sm[n].Subject : n \in 1..Len(sm) } = all_subjects_of(rows)
       /\ Len(sm) = Cardinality(all_subjects_of(rows))
       /\ \A n \in 1..Len(sm) : \A g \in ValidSet :
            sm[n].Total[g]
              = Cardinality(Occurrences(rows, sm[n].Subject, {g}))

\* C6's case: a subject seen only with an unknown grade has a row of zeros
\* next to a subject with a counted grade, in records of a sex without column
C6_Witness ==
  /\ summary_df # None
  /\ \E n \in 1..Len(Val(summary_df)) :
       /\ Val(summary_df)[n].Subject = <<"H">>
       /\ \A g \in ValidSet : Val(summary_df)[n].Total[g] = 0
  /\ \E n \in 1..Len(Val(summary_df)) :
       Val(summary_df)[n].Total[<<"A">>] = 1
  /\ \A i \in 1..Len(Val(df)) : Val(df)[i].SEX = "U"

\* C7 as stated: no star code is a valid grade, so no pair whose grade is a
\* star code is counted in the subject-grade summary.
C7_StarCodesNeverCounted ==
  summary_df # None =>
    \A n \in 1..Len(Val(summary_df)) : \A k \in star_codes :
      k \in DOMAIN Val(summary_df)[n].Total
        => Val(summary_df)[n].Total[k] = 0

\* C7 amended: every star code but X is outside the valid grades, and the
\* counts of a row never exceed the subject's occurrences with a grade that
\* is no star code other than X; X is a valid grade and is counted.
C7_StarCodesButXNeverCounted ==
  /\ \A k \in star_codes \ {<<"X">>} : ~InValid(k)
  /\ InValid(<<"X">>)
  /\ summary_df # None =>
       \A n \in 1..Len(Val(summary_df)) :
         LET row == Val(summary_df)[n]
         IN /\ SumOver(row.Total, DOMAIN row.Total)
                 <= Cardinality(Occurrences(Val(df), row.Subject,
                      ObservedGrades(Val(df)) \ (star_codes \ {<<"X">>})))
            /\ row.Total[<<"X">>]
                 = Cardinality(Occurrences(Val(df), row.Subject, {<<"X">>}))

\* C7's case: the records show the star code *S and the grade X, and X is
\* counted
C7_Witness ==
  /\ summary_df # None
  /\ <<"*", "S">> \in ObservedGrades(Val(df))
  /\ \E n \in 1..Len(Val(summary_df)) :
       Val(summary_df)[n].Total[<<"X">>] = 1

\* C8: both summaries are the same for every permutation of the records.
C8_OrderIndependent ==
  summary_df # None =>
    \A p \in RowPermutations(Len(Val(df))) :
      /\ summary_of(Permuted(Val(df), p)) = Val(summary_df)
      /\ div_summary_of(Permuted(Val(df), p)) = Val(div_summary_df)

\* C8's case: two different records whose divisions appear in the reverse
\* of the order of the division summary
C8_Witness ==
  /\ summary_df # None
  /\ Len(Val(df)) = 2
  /\ Val(df)[1].SEX # Val(df)[2].SEX
  /\ Val(df)[1].DETAILED_SUBJECTS # Val(df)[2].DETAILED_SUBJECTS
  /\ Len(Val(div_summary_df)) = 2
  /\ Val(div_summary_df)[1].DIV = Val(df)[2].DIV

\* C9: when fetch_data fails, no validation, no aggregation and no write
\* happens, in run() and in the save calls that follow it.
C9_NoOutputAfterFetchFailure ==
  fetch_result \in {"http_error", "no_tables"} =>
    /\ files = {}
    /\ df = None
    /\ invalid_grades = None
    /\ summary_df = None
    /\ div_summary_df = None

\* C9's case: the fetch failed and both save calls have been made
C9_Witness ==
  /\ fetch_result \in {"http_error", "no_tables"}
  /\ pc = "done"

\* C10: validate_grades returns exactly the observed grades that are not in
\* the valid vocabulary.
C10_InvalidGradesExact ==
  invalid_grades # None =>
    Val(invalid_grades)
      = { g \in ObservedGrades(Val(df)) :
            \A k \in 1..Len(valid_grades) : valid_grades[k] # g }

\* C10's case: valid grades, a star code and an unknown grade are observed
C10_Witness ==
  /\ invalid_grades # None
  /\ Val(invalid_grades) = { <<"Z">>, <<"*", "S">> }
  /\ <<"A">> \in ObservedGrades(Val(df))

====
